---- MODULE Spec2Model ----
(***************************************************************************)
(* Model of the ONNX session manager (emotionOnnxService.js), the model    *)
(* registry (modelConfig.js) and the tensor builder (preprocessLandmarks). *)
(*                                                                         *)
(* The service functions are JavaScript async functions: each call runs    *)
(* synchronously up to its next await, and calls made by different         *)
(* callers interleave at the awaits.  A caller's record holds the position *)
(* of its call (pc) and the call's local variables.                        *)
(***************************************************************************)
EXTENDS Integers, Sequences, FiniteSets, TLC

VARIABLES
    currentActiveModelId,  \* modelConfig.js: let currentActiveModelId
    onnxSession,           \* emotionOnnxService.js: let onnxSession
    currentModelConfig,    \* emotionOnnxService.js: let currentModelConfig
    calls,                 \* per caller: the call in flight and its locals
    returned,              \* the call that returned in the last step, if any
    tensorIn,              \* preprocessLandmarks: its argument and the config it reads
    tensorOut,             \* preprocessLandmarks: what it returned, once called
    pureIn,                \* a synchronous helper and the arguments it is called with
    pureOut,               \* what the helper returned, once called
    monitor                \* EmotionMonitor: its refs, the clock and the frame callbacks in flight

svcVars == <<currentActiveModelId, onnxSession, currentModelConfig, calls, returned>>
tensorVars == <<tensorIn, tensorOut>>
pureVars == <<pureIn, pureOut>>
vars == <<currentActiveModelId, onnxSession, currentModelConfig, calls, returned,
          tensorIn, tensorOut, pureIn, pureOut, monitor>>

(***************************************************************************)
(* Values                                                                  *)
(***************************************************************************)
Null == "null"             \* JS null / undefined
NoArg == "noarg"           \* parameter omitted (modelId = null default)

\* The callers whose async calls can be in flight at the same time: the
\* component's handlers (mount effect, retry button), which load a model, and
\* the frame callback, which predicts.  switchModel has no await and can be
\* called at any time.
Callers == {"ui", "frame"}

(***************************************************************************)
(* Model registry (modelConfig.js)                                         *)
(***************************************************************************)
ModelIds == {"ferplus_transformer_small_v1", "emotion_transformer_v1"}

MODEL_CONFIGS ==
    [id \in ModelIds |->
        IF id = "ferplus_transformer_small_v1"
        THEN [id |-> id, filename |-> "emotion_transformer_small.onnx",
              sequenceLength |-> 1, numLandmarks |-> 478, numCoords |-> 3,
              tensorShape |-> <<1, 478, 3>>, requiresNormalization |-> TRUE,
              outputType |-> "classification"]
        ELSE [id |-> id, filename |-> "emotion_transformer_v1.onnx",
              sequenceLength |-> 1, numLandmarks |-> 478, numCoords |-> 3,
              tensorShape |-> <<1, 478, 3>>, requiresNormalization |-> FALSE,
              outputType |-> "classification"]]

\* MODEL_CONFIGS is a plain object literal: a property read with a key that
\* is not an own key falls through to Object.prototype, so
\* MODEL_CONFIGS["constructor"] is the (truthy) Object function.
ProtoKeys == {"constructor"}
ObjectFn == "Object"

\* A config reference: a registry entry, the inherited Object function, or
\* undefined.
Lookup(modelId) ==
    IF modelId \in ModelIds THEN modelId
    ELSE IF modelId \in ProtoKeys THEN ObjectFn
    ELSE Null

Truthy(v) == v # Null /\ v # NoArg

DefaultModelId == "ferplus_transformer_small_v1"

getActiveModelConfig(active) == Lookup(active)

getModelConfig(modelId) == Lookup(modelId)

\* setActiveModel: <<return value, new currentActiveModelId>>
setActiveModel(modelId, active) ==
    IF Truthy(Lookup(modelId)) THEN <<TRUE, modelId>> ELSE <<FALSE, active>>

getModelPaths(filename) == << <<"/models/", filename>>, <<"./models/", filename>> >>

\* The ids a caller may pass: registered ids, an unregistered id, an
\* inherited property name, or no argument.
ModelIdInputs == ModelIds \cup {"unknown_model"} \cup ProtoKeys

(***************************************************************************)
(* Numbers.  Coordinates are fixed-point: the integer n stands for n/Unit. *)
(***************************************************************************)
Unit == 100

Sentinel == -Unit          \* -1.0

RECURSIVE SqrtSearch(_, _, _)
SqrtSearch(n, lo, hi) ==
    IF lo >= hi THEN lo
    ELSE LET mid == (lo + hi + 1) \div 2 IN
         IF mid <= n \div mid THEN SqrtSearch(n, mid, hi) ELSE SqrtSearch(n, lo, mid - 1)

\* Math.sqrt on the grid (rounded down).
Sqrt(n) == SqrtSearch(n, 0, n)

Min(a, b) == IF a < b THEN a ELSE b

\* A JS array built by map / Array.from: the elements are computed once.
Array(f) == <<>> \o f

(***************************************************************************)
(* Landmark input values                                                   *)
(*   an element of the array is an object with x, y, z (each a number or   *)
(*   not), null, or itself an array (a frame of a multi-frame input)       *)
(***************************************************************************)
Lm(x, y, z) == [kind |-> "lm", x |-> x, y |-> y, z |-> z,
                nx |-> TRUE, ny |-> TRUE, nz |-> TRUE, items |-> <<>>]

\* An object whose x (resp. z) is not a number.
LmNoX == [Lm(0, 0, 0) EXCEPT !.nx = FALSE]
LmNoZ(x, y) == [Lm(x, y, 0) EXCEPT !.nz = FALSE]

NullElem == [Lm(0, 0, 0) EXCEPT !.kind = "null", !.nx = FALSE, !.ny = FALSE, !.nz = FALSE]

FrameElem(items) ==
    [Lm(0, 0, 0) EXCEPT !.kind = "frame", !.nx = FALSE, !.ny = FALSE, !.nz = FALSE,
                        !.items = items]

NullData == [isArray |-> FALSE, items |-> <<>>]

ArrayData(items) == [isArray |-> TRUE, items |-> items]

(***************************************************************************)
(* preprocessLandmarks and applyDistanceNormalization                      *)
(***************************************************************************)
NOSE_TIP_IDX == 1
LEFT_EYE_OUTER_IDX == 33
RIGHT_EYE_OUTER_IDX == 263

SentinelPoint(numCoords) == [k \in 1..numCoords |-> Sentinel]

HasSentinel(coords) == \E k \in DOMAIN coords : coords[k] = Sentinel

\* Lines 196-203.
translate(coords, center) ==
    IF HasSentinel(coords) THEN coords
    ELSE <<coords[1] - center[1], coords[2] - center[2], coords[3] - center[3]>>

\* Lines 214-231.
scale(coords, scaleDistance) ==
    IF HasSentinel(coords) THEN coords
    ELSE LET distanceFromCenter ==
                 Sqrt(coords[1] * coords[1] + coords[2] * coords[2] + coords[3] * coords[3])
             distanceThreshold == 5 * scaleDistance
         IN IF distanceFromCenter > distanceThreshold
            THEN [k \in 1..3 |-> (coords[k] * distanceThreshold * Unit)
                                    \div (distanceFromCenter * scaleDistance)]
            ELSE [k \in 1..3 |-> (coords[k] * Unit) \div scaleDistance]

\* normalizeFrame without the isInvalid test of lines 187-194: a frame whose
\* reference landmarks are sentinel-filled is normalized with them.
normalizeFrameNoInvalidTest(frameLandmarks) ==
    LET n == Len(frameLandmarks) IN
    IF n <= NOSE_TIP_IDX \/ n <= LEFT_EYE_OUTER_IDX \/ n <= RIGHT_EYE_OUTER_IDX
    THEN frameLandmarks
    ELSE
    LET centerLandmarkCoords == frameLandmarks[NOSE_TIP_IDX + 1]
        p1Coords == frameLandmarks[LEFT_EYE_OUTER_IDX + 1]
        p2Coords == frameLandmarks[RIGHT_EYE_OUTER_IDX + 1]
        scaleDistance ==
            Sqrt((p1Coords[1] - p2Coords[1]) * (p1Coords[1] - p2Coords[1])
                 + (p1Coords[2] - p2Coords[2]) * (p1Coords[2] - p2Coords[2]))
    IN
    IF scaleDistance * 1000000 < Unit
    THEN Array([j \in 1..n |-> translate(frameLandmarks[j], centerLandmarkCoords)])
    ELSE Array([j \in 1..n |->
            scale(translate(frameLandmarks[j], centerLandmarkCoords), scaleDistance)])

\* Lines 175-237, one frame.  JS indices are 0-based: landmark i is frame[i+1].
normalizeFrame(frameLandmarks) ==
    LET isEntireFrameInvalid ==
            \A j \in DOMAIN frameLandmarks :
                \A k \in DOMAIN frameLandmarks[j] : frameLandmarks[j][k] = Sentinel
        n == Len(frameLandmarks)
    IN
    IF isEntireFrameInvalid THEN frameLandmarks
    ELSE IF n <= NOSE_TIP_IDX \/ n <= LEFT_EYE_OUTER_IDX \/ n <= RIGHT_EYE_OUTER_IDX
    THEN frameLandmarks      \* undefined.some(...) throws: the catch keeps the frame
    ELSE
    LET centerLandmarkCoords == frameLandmarks[NOSE_TIP_IDX + 1]
        p1Coords == frameLandmarks[LEFT_EYE_OUTER_IDX + 1]
        p2Coords == frameLandmarks[RIGHT_EYE_OUTER_IDX + 1]
        isInvalid == HasSentinel(centerLandmarkCoords) \/ HasSentinel(p1Coords)
                     \/ HasSentinel(p2Coords)
        scaleDistance ==
            Sqrt((p1Coords[1] - p2Coords[1]) * (p1Coords[1] - p2Coords[1])
                 + (p1Coords[2] - p2Coords[2]) * (p1Coords[2] - p2Coords[2]))
    IN
    IF isInvalid THEN frameLandmarks
    ELSE IF scaleDistance * 1000000 < Unit
    THEN Array([j \in 1..n |-> translate(frameLandmarks[j], centerLandmarkCoords)])
    ELSE Array([j \in 1..n |->
            scale(translate(frameLandmarks[j], centerLandmarkCoords), scaleDistance)])

applyDistanceNormalization(landmarksFrames) ==
    Array([f \in 1..Len(landmarksFrames) |-> normalizeFrame(landmarksFrames[f])])

\* Line 131 reads landmarks[0].x: a TypeError when the first element is
\* null or undefined.
framesThrows(landmarks) ==
    landmarks.isArray /\ Len(landmarks.items) > 0 /\ landmarks.items[1].kind = "null"

\* Lines 131-135: the frames, each an element value.
framesOf(landmarks) ==
    IF landmarks.isArray /\ Len(landmarks.items) > 0 /\ landmarks.items[1].nx
    THEN <<FrameElem(landmarks.items)>>
    ELSE IF landmarks.isArray THEN landmarks.items
    ELSE <<>>

\* buildFrame without the Math.min bound and the -1 fill: as many slots as
\* the frame has landmarks.
buildFrameUnbounded(frames, i, numLandmarks, numCoords) ==
    LET frame == IF i <= Len(frames) /\ frames[i].kind = "frame"
                 THEN frames[i].items ELSE <<>>
    IN Array([j \in 1..Len(frame) |->
                 IF frame[j].kind # "null" /\ frame[j].nx /\ frame[j].ny /\ frame[j].nz
                 THEN <<frame[j].x, frame[j].y, frame[j].z>>
                 ELSE SentinelPoint(numCoords)])

\* buildFrame writing each coordinate that is a number on its own.
buildFramePartial(frames, i, numLandmarks, numCoords) ==
    LET frame == IF i <= Len(frames) /\ frames[i].kind = "frame"
                 THEN frames[i].items ELSE <<>>
        at(j) == frame[j]
    IN Array([j \in 1..numLandmarks |->
                 IF j <= Min(Len(frame), numLandmarks) /\ at(j).kind # "null"
                 THEN <<IF at(j).nx THEN at(j).x ELSE Sentinel,
                        IF at(j).ny THEN at(j).y ELSE Sentinel,
                        IF at(j).nz THEN at(j).z ELSE Sentinel>>
                 ELSE SentinelPoint(numCoords)])

\* Lines 141-153: one frame of the buffer.  frame.length of an object that is
\* no array is undefined, so the loop does not run.
buildFrame(frames, i, numLandmarks, numCoords) ==
    LET frame == IF i <= Len(frames) /\ frames[i].kind = "frame"
                 THEN frames[i].items ELSE <<>>
        filled(j) == /\ j <= Min(Len(frame), numLandmarks)
                     /\ frame[j].kind # "null"
                     /\ frame[j].nx /\ frame[j].ny /\ frame[j].nz
    IN Array([j \in 1..numLandmarks |->
                 IF filled(j) THEN <<frame[j].x, frame[j].y, frame[j].z>>
                 ELSE SentinelPoint(numCoords)])

\* The elements of arrays[lo..hi] one after the other.
RECURSIVE flatRange(_, _, _)
flatRange(arrays, lo, hi) ==
    IF lo > hi THEN <<>>
    ELSE IF lo = hi THEN arrays[lo]
    ELSE LET mid == (lo + hi) \div 2 IN
         flatRange(arrays, lo, mid) \o flatRange(arrays, mid + 1, hi)

\* Array.prototype.flat(1): the elements of the elements, in order.
flat(arrays) == flatRange(arrays, 1, Len(arrays))

\* finalFrames.flat(2): frames of points of coordinates to one flat array.
flat2(frames) == flat(flat(frames))

\* preprocessLandmarks with config the value of
\* currentModelConfig || getActiveModelConfig(): the buffer, or threw.
preprocessLandmarks(landmarks, config) ==
    IF framesThrows(landmarks) \/ config \notin ModelIds
    THEN [threw |-> TRUE, data |-> <<>>]
    ELSE LET cfg == MODEL_CONFIGS[config]
             frames == framesOf(landmarks)
             processedFrames ==
                 Array([i \in 1..cfg.sequenceLength |->
                           buildFrame(frames, i, cfg.numLandmarks, cfg.numCoords)])
             finalFrames == IF cfg.requiresNormalization
                            THEN applyDistanceNormalization(processedFrames)
                            ELSE processedFrames
         IN [threw |-> FALSE, data |-> flat2(finalFrames)]


(***************************************************************************)
(* Calls in flight                                                         *)
(***************************************************************************)
\* fn: the exported function called; pc: the await the call is suspended at;
\* arg, input: its arguments; file, hooksFile, pathIdx, activeCfg, runSess:
\* its locals; initRet: what the initializeOnnxModel it awaited returned;
\* log: the load strategies tried so far.  Locals are reset once they are
\* dead.  newer is no variable of the code: it records the configuration
\* resolved by the newest initializeOnnxModel that started while this call's
\* load was in flight.  after is no variable of the code either: it is the
\* id of the switchModel that returned true in the step before the call was
\* made, until another initializeOnnxModel or switchModel is called.
IdleCall ==
    [fn |-> "idle", pc |-> "idle", arg |-> NoArg, input |-> "none",
     file |-> Null, hooksFile |-> Null, pathIdx |-> 0, log |-> <<>>,
     initRet |-> "none", activeCfg |-> Null, runSess |-> Null, newer |-> Null,
     after |-> Null]

\* The last step's return, if it was one: the function, its argument, the
\* await it returned from (pc), what it returned (ret; for a prediction its
\* model_id and the session file that computed it), the strategies its
\* initializeOnnxModel tried, and what the step found: whether a session was
\* live and whether arg was the active id.
NoReturn ==
    [fn |-> "none", arg |-> NoArg, input |-> "none", pc |-> "idle", ret |-> "none",
     resModel |-> Null, resSess |-> Null, log |-> <<>>, initRet |-> "none",
     hadSession |-> FALSE, wasActive |-> FALSE, newer |-> Null, after |-> Null]

ReturnOf(call, ret, resModel, resSess) ==
    [fn |-> call.fn, arg |-> call.arg, input |-> call.input, pc |-> call.pc,
     ret |-> ret, resModel |-> resModel, resSess |-> resSess, log |-> call.log,
     initRet |-> call.initRet, hadSession |-> (onnxSession # Null),
     wasActive |-> (call.arg = currentActiveModelId), newer |-> call.newer,
     after |-> call.after]

\* The call of caller c returns ret: the caller's slot is free again.
Return(c, call, ret, resModel, resSess) ==
    /\ calls' = [calls EXCEPT ![c] = IdleCall]
    /\ returned' = ReturnOf(call, ret, resModel, resSess)
    /\ UNCHANGED <<tensorVars, pureVars, monitor>>

Continue(c, call) ==
    /\ calls' = [calls EXCEPT ![c] = call]
    /\ returned' = NoReturn
    /\ UNCHANGED <<tensorVars, pureVars, monitor>>

NewCall(fn, arg, input) ==
    [IdleCall EXCEPT !.fn = fn, !.pc = "start", !.arg = arg, !.input = input]

\* A call that has no await: it returns in the step that calls it and
\* occupies no caller.
OneStepReturn(fn, arg, ret) ==
    /\ calls' = [d \in Callers |-> [calls[d] EXCEPT !.after = Null]]
    /\ returned' = ReturnOf(NewCall(fn, arg, "none"), ret, Null, Null)
    /\ UNCHANGED <<tensorVars, pureVars, monitor>>

\* Some caller's initializeOnnxModel has returned and the continuation of the
\* function awaiting it is queued as a microtask.  Only continuations that
\* are already due run before it: a new call needs a task of its own (an
\* event handler, an effect, a frame callback).
ContinuationQueued == \E c \in Callers : calls[c].pc = "afterInit"

\* The awaits of initializeOnnxModel's load strategies.
LoadAwaits == {"uri", "hooks", "path"}

\* Caller c's initializeOnnxModel reaches its first await with the
\* configuration config: the loads in flight are now the older ones.
Overlap(c, call, config) ==
    /\ calls' = [d \in Callers |->
                    IF d = c THEN call
                    ELSE IF calls[d].pc \in LoadAwaits
                    THEN [calls[d] EXCEPT !.newer = config, !.after = Null]
                    ELSE [calls[d] EXCEPT !.after = Null]]
    /\ returned' = NoReturn
    /\ UNCHANGED <<tensorVars, pureVars, monitor>>

Logged(call, strategy, ok) ==
    [call EXCEPT !.log = Append(@, [s |-> strategy, ok |-> ok])]

(***************************************************************************)
(* initializeOnnxModel                                                     *)
(***************************************************************************)
\* Lines 35-56, up to the first await: the config the call resolves, the
\* registry's active id afterwards, and whether the synchronous part threw
\* (no configuration, or a value that is no ModelConfig: reading
\* processingOptions.executionProviders of it is a TypeError).
initResolve(modelId, active) ==
    LET sa == setActiveModel(modelId, active)
        newActive == IF Truthy(modelId) THEN sa[2] ELSE active
        config == IF Truthy(modelId) /\ sa[1] THEN getModelConfig(modelId)
                  ELSE getActiveModelConfig(newActive)
    IN [active |-> newActive, config |-> config, threw |-> config \notin ModelIds]

\* A catch block that reports the failure and clears nothing.
initCatchKeeps == <<onnxSession, currentModelConfig, "false">>

\* The outer catch (lines 121-126): <<onnxSession, currentModelConfig, result>>.
initCatch == <<Null, Null, "false">>

\* The nested or top-level initializeOnnxModel of call returns ok ("true"/"false").
InitReturns(c, call, ok) ==
    IF call.fn = "init"
    THEN Return(c, call, ok, Null, Null)
    ELSE Continue(c, [call EXCEPT !.pc = "afterInit", !.initRet = ok, !.file = Null,
                                  !.hooksFile = Null, !.pathIdx = 0])

\* A failure that leaves the session as it is.
InitFailsKeepsSession(c, call) ==
    /\ onnxSession' = onnxSession
    /\ currentModelConfig' = initCatch[2]
    /\ InitReturns(c, call, initCatch[3])

\* initializeOnnxModel fails in its catch block.
InitFails(c, call) ==
    /\ onnxSession' = initCatch[1]
    /\ currentModelConfig' = initCatch[2]
    /\ InitReturns(c, call, initCatch[3])

\* Lines 29-64: the synchronous start of initializeOnnxModel(modelId), run
\* within the caller's step; sess is the session in force (reloadCurrentModel
\* clears it just before).
InitStart(c, call, modelId, sess) ==
    LET r == initResolve(modelId, currentActiveModelId) IN
    /\ currentActiveModelId' = r.active
    /\ IF r.threw
       THEN InitFails(c, call)
       ELSE /\ currentModelConfig' = r.config
            /\ onnxSession' = sess
            /\ Overlap(c, [call EXCEPT !.pc = "uri",
                                       !.file = MODEL_CONFIGS[r.config].filename],
                       r.config)

\* Lines 116-120 after a strategy stored the session s: the log line reads
\* currentModelConfig.outputFormat, a TypeError when the config is unset.
InitLoaded(c, call, s) ==
    IF currentModelConfig = Null
    THEN /\ UNCHANGED currentActiveModelId
         /\ InitFails(c, call)
    ELSE /\ onnxSession' = s
         /\ UNCHANGED <<currentActiveModelId, currentModelConfig>>
         /\ InitReturns(c, call, "true")

\* Lines 96-101: the direct paths, from possiblePaths computed at line 58.
StartPaths(c, call) ==
    /\ UNCHANGED <<currentActiveModelId, onnxSession, currentModelConfig>>
    /\ Continue(c, [call EXCEPT !.pc = "path", !.pathIdx = 1, !.hooksFile = Null])

\* Lines 78-94: fetchModelFromHooks(currentModelConfig.filename), the global
\* read again; with the config unset the read throws inside the inner try.
StartHooks(c, call) ==
    IF currentModelConfig = Null
    THEN StartPaths(c, Logged(call, "fetchModelFromHooks", FALSE))
    ELSE /\ UNCHANGED <<currentActiveModelId, onnxSession, currentModelConfig>>
         /\ Continue(c, [call EXCEPT !.pc = "hooks",
                              !.hooksFile = MODEL_CONFIGS[currentModelConfig].filename])

\* Lines 62-76.  The awaits on getOnnxModelUri(...) and, when it gave a URI,
\* on InferenceSession.create(modelUri) settle: a session was created, or
\* not (no URI, or create rejected).  No shared variable is read or written
\* between the two awaits, so they are one step.
ResumeUri(c, created) ==
    LET call == calls[c] IN
    /\ call.pc = "uri"
    /\ IF created
       THEN InitLoaded(c, Logged(call, "getOnnxModelUri", TRUE), call.file)
       ELSE StartHooks(c, Logged(call, "getOnnxModelUri", FALSE))

\* Lines 78-94.  The awaits on fetchModelFromHooks(...) and create settle.
ResumeHooks(c, created) ==
    LET call == calls[c] IN
    /\ call.pc = "hooks"
    /\ IF created
       THEN InitLoaded(c, Logged(call, "fetchModelFromHooks", TRUE), call.hooksFile)
       ELSE StartPaths(c, Logged(call, "fetchModelFromHooks", FALSE))

\* await InferenceSession.create(path) resolves or rejects (lines 98-109);
\* after the last path, line 113 throws into the outer catch.
ResumePath(c, created) ==
    LET call == calls[c]
        paths == getModelPaths(call.file)
        path == paths[call.pathIdx]
    IN
    /\ call.pc = "path"
    /\ IF created
       THEN InitLoaded(c, Logged(call, path[1], TRUE), path[2])
       ELSE IF call.pathIdx < Len(paths)
            THEN /\ UNCHANGED <<currentActiveModelId, onnxSession, currentModelConfig>>
                 /\ Continue(c, [Logged(call, path[1], FALSE) EXCEPT !.pathIdx = @ + 1])
            ELSE /\ UNCHANGED currentActiveModelId
                 /\ InitFails(c, Logged(call, path[1], FALSE))

\* A caller calls initializeOnnxModel(modelId), or initializeOnnxModel().
CallInit(c, modelId) ==
    /\ calls[c].pc = "idle"
    /\ ~ContinuationQueued
    /\ InitStart(c, NewCall("init", modelId, "none"), modelId, onnxSession)

RECURSIVE Product(_)
Product(shape) == IF shape = <<>> THEN 1 ELSE Head(shape) * Product(Tail(shape))

\* new ort.Tensor('float32', data, dims) throws when the sizes disagree.
tensorThrows(data, dims) == Len(data) # Product(dims)

(***************************************************************************)
(* Landmark arrays the callers pass                                        *)
(***************************************************************************)
\* Landmark i (0-based) of a detected face: x, y in [0, 1), z a small depth.
FacePoint(i) == Lm((37 * i + 11) % Unit, (53 * i + 29) % Unit, 0 - ((11 * i) % 20))

\* A face of n landmarks.
Face(n) == Array([j \in 1..n |-> FacePoint(j - 1)])

\* What the frame callback can pass to predictEngagement: no array, a
\* detected face, or an array whose first element is null.
PredictInputs == {"null", "face", "nullFirst"}

LandmarksOf(input) ==
    CASE input = "null" -> NullData
      [] input = "face" -> ArrayData(Face(MODEL_CONFIGS[DefaultModelId].numLandmarks))
      [] OTHER -> ArrayData(<<NullElem, FacePoint(1)>>)

\* Lines 317-322 for each input and config: whether preprocessLandmarks or
\* the Tensor constructor throws.
tensorFails(input, config) ==
    LET pp == preprocessLandmarks(LandmarksOf(input), config) IN
    pp.threw \/ tensorThrows(pp.data, MODEL_CONFIGS[config].tensorShape)

TensorFailures ==
    UNION {IF tensorFails(ic[1], ic[2]) THEN {ic} ELSE {} :
               ic \in PredictInputs \X (ModelIds \cup {ObjectFn})}

(***************************************************************************)
(* predictEngagement                                                       *)
(***************************************************************************)
\* The number of outputs of the session made from a model file (logits and
\* embedding for every registered model).
OutputCount(file) == 2

\* No catch: the error reaches the caller.
predictRethrows == "throw"

\* The catch of predictEngagement (lines 428-431).
predictCatch == "null"

\* A catch that also drops the session, as initializeOnnxModel's does.
PredictFailsClears(c, call) ==
    /\ onnxSession' = Null
    /\ currentModelConfig' = Null
    /\ UNCHANGED currentActiveModelId
    /\ Return(c, call, predictCatch, Null, Null)

PredictFails(c, call) ==
    /\ UNCHANGED <<currentActiveModelId, onnxSession, currentModelConfig>>
    /\ Return(c, call, predictCatch, Null, Null)

\* Lines 314-324, from the config lookup to the call of onnxSession.run.
PredictBody(c, call) ==
    LET activeConfig == IF currentModelConfig # Null THEN currentModelConfig
                        ELSE getActiveModelConfig(currentActiveModelId)
    IN
    IF \/ <<call.input, activeConfig>> \in TensorFailures
       \/ onnxSession = Null
    THEN PredictFails(c, call)
    ELSE /\ UNCHANGED <<currentActiveModelId, onnxSession, currentModelConfig>>
         /\ Continue(c, [call EXCEPT !.pc = "run", !.activeCfg = activeConfig,
                                     !.runSess = onnxSession, !.log = <<>>])

\* A caller calls predictEngagement(landmarksData): line 307 reads
\* landmarksData.length; lines 308-312 start the lazy initialization.
CallPredict(c, input) ==
    LET call == [NewCall("predict", NoArg, input) EXCEPT
                     !.after = IF /\ returned.fn = "switch" /\ returned.ret = "true"
                                  /\ returned.arg \in ModelIds
                               THEN returned.arg ELSE Null]
    IN
    /\ calls[c].pc = "idle"
    /\ ~ContinuationQueued
    /\ IF ~LandmarksOf(input).isArray
       THEN PredictFails(c, call)
       ELSE IF onnxSession = Null
       THEN InitStart(c, call, NoArg, onnxSession)
       ELSE PredictBody(c, call)

\* Lines 326-427 for the outputs the run produced (all of them or not).
postProcess(call, session, outputsPresent) ==
    LET cfg == MODEL_CONFIGS[call.activeCfg] IN
    IF cfg.id = "emotion_transformer_v1"
    THEN IF outputsPresent THEN "result" ELSE predictCatch
    ELSE IF session = Null THEN predictCatch    \* onnxSession.outputNames of null
    ELSE IF cfg.outputType = "classification" /\ OutputCount(session) >= 2
    THEN IF outputsPresent THEN "result" ELSE predictCatch
    ELSE IF outputsPresent THEN "result" ELSE predictCatch

\* await onnxSession.run(feeds) resolves (with or without the expected
\* outputs) or rejects.
ResumeRun(c, outcome) ==
    LET call == calls[c]
        ret == IF outcome = "reject" THEN predictCatch
               ELSE postProcess(call, onnxSession, outcome = "ok")
    IN
    /\ call.pc = "run"
    /\ UNCHANGED <<currentActiveModelId, onnxSession, currentModelConfig>>
    /\ IF ret = "result"
       THEN Return(c, call, ret, MODEL_CONFIGS[call.activeCfg].id, call.runSess)
       ELSE Return(c, call, ret, Null, Null)

(***************************************************************************)
(* switchModel, reloadCurrentModel, and the awaits on initializeOnnxModel  *)
(***************************************************************************)
\* Lines 434-436: getCurrentModelInfo() reads the cached config, else the
\* registry's active config.
getCurrentModelInfo(config, active) ==
    IF config # Null THEN config ELSE getActiveModelConfig(active)

\* switchModel that returns early when modelId is active and a session is live.
switchModelSameIdNoOp(modelId, session, config, active) ==
    LET newModelConfig == getModelConfig(modelId)
        sa == setActiveModel(modelId, active)
    IN IF ~Truthy(newModelConfig) \/ ~sa[1]
       THEN [ret |-> "false", session |-> session, config |-> config, active |-> active]
       ELSE IF modelId = active /\ session # Null
       THEN [ret |-> "true", session |-> session, config |-> config, active |-> active]
       ELSE [ret |-> "true", session |-> Null, config |-> Null, active |-> sa[2]]

\* switchModel that loads the new model before it returns.
switchModelLoads(modelId, session, config, active) ==
    LET newModelConfig == getModelConfig(modelId)
        sa == setActiveModel(modelId, active)
    IN IF ~Truthy(newModelConfig) \/ ~sa[1]
       THEN [ret |-> "false", session |-> session, config |-> config, active |-> active]
       ELSE IF newModelConfig \in ModelIds
       THEN [ret |-> "true", session |-> MODEL_CONFIGS[newModelConfig].filename,
             config |-> newModelConfig, active |-> sa[2]]
       ELSE [ret |-> "true", session |-> Null, config |-> Null, active |-> sa[2]]

\* switchModel(modelId) has no await: it runs in one step.
switchModel(modelId, session, config, active) ==
    LET newModelConfig == getModelConfig(modelId)
        sa == setActiveModel(modelId, active)
    IN IF ~Truthy(newModelConfig) \/ ~sa[1]
       THEN [ret |-> "false", session |-> session, config |-> config, active |-> active]
       ELSE [ret |-> "true", session |-> Null, config |-> Null, active |-> sa[2]]

CallSwitch(modelId) ==
    LET r == switchModel(modelId, onnxSession, currentModelConfig, currentActiveModelId) IN
    /\ ~ContinuationQueued
    /\ currentActiveModelId' = r.active
    /\ onnxSession' = r.session
    /\ currentModelConfig' = r.config
    /\ OneStepReturn("switch", modelId, r.ret)

\* Lines 474-478: the id reloadCurrentModel passes to initializeOnnxModel
\* (the id field of the active config; undefined if that value has none).
reloadTarget(active) ==
    LET activeConfig == getActiveModelConfig(active) IN
    IF activeConfig \in ModelIds THEN MODEL_CONFIGS[activeConfig].id ELSE NoArg

CallReload(c) ==
    /\ calls[c].pc = "idle"
    /\ ~ContinuationQueued
    /\ InitStart(c, NewCall("reload", reloadTarget(currentActiveModelId), "none"),
                 reloadTarget(currentActiveModelId), Null)

\* The caller of initializeOnnxModel resumes with its result.
AfterInit(c) ==
    LET call == [calls[c] EXCEPT !.newer = Null] IN
    /\ call.pc = "afterInit"
    /\ IF call.fn = "reload"
       THEN /\ UNCHANGED <<currentActiveModelId, onnxSession, currentModelConfig>>
            /\ Return(c, call, call.initRet, Null, Null)
       ELSE IF call.initRet = "false"
       THEN PredictFails(c, call)
       ELSE PredictBody(c, call)

(***************************************************************************)
(* The session manager and its callers                                     *)
(***************************************************************************)
NoTensorIn == [landmarks |-> NullData]
NoTensorOut == [called |-> FALSE, threw |-> FALSE, data |-> <<>>]
NoPureIn == [fn |-> "none"]
NoPureOut == [called |-> FALSE]
NoMonitor == [kind |-> "none"]

Init ==
    /\ currentActiveModelId = DefaultModelId
    /\ onnxSession = Null
    /\ currentModelConfig = Null
    /\ calls = [c \in Callers |-> IdleCall]
    /\ returned = NoReturn
    /\ tensorIn = NoTensorIn
    /\ tensorOut = NoTensorOut
    /\ pureIn = NoPureIn
    /\ pureOut = NoPureOut
    /\ monitor = NoMonitor

Next ==
    \/ \E modelId \in ModelIdInputs \cup {NoArg} : CallInit("ui", modelId)
    \/ CallReload("ui")
    \/ \E input \in PredictInputs : CallPredict("frame", input)
    \/ \E modelId \in ModelIdInputs : CallSwitch(modelId)
    \/ \E c \in Callers, created \in BOOLEAN : ResumeUri(c, created)
    \/ \E c \in Callers, created \in BOOLEAN : ResumeHooks(c, created)
    \/ \E c \in Callers, created \in BOOLEAN : ResumePath(c, created)
    \/ \E c \in Callers : AfterInit(c)
    \/ \E outcome \in {"ok", "missing", "reject"} : ResumeRun("frame", outcome)

Spec == Init /\ [][Next]_vars

(***************************************************************************)
(* The tensor builder on its own: preprocessLandmarks applied to one       *)
(* landmark array, under each registered configuration                     *)
(***************************************************************************)
MaxShort == 2              \* arrays of 0..MaxShort landmarks
MaxSkew == 2               \* arrays of numLandmarks -/+ MaxSkew landmarks
MaxHole == 3               \* a malformed element at one of the first MaxHole places

TensorLengths ==
    LET n == MODEL_CONFIGS[DefaultModelId].numLandmarks IN
    (0..MaxShort) \cup ((n - MaxSkew)..(n + MaxSkew))

\* What a malformed element is: an object without numeric x, an object
\* without numeric z, or null.
HoleKinds == {"noX", "noZ", "null"}

HoleElem(kind, i) ==
    CASE kind = "noX" -> LmNoX
      [] kind = "noZ" -> LmNoZ(FacePoint(i).x, FacePoint(i).y)
      [] OTHER -> NullElem

\* A face of n landmarks whose element at place hole is malformed.
FaceWithHole(n, kind, hole) ==
    Array([j \in 1..n |-> IF j = hole THEN HoleElem(kind, j - 1) ELSE FacePoint(j - 1)])

\* The landmark arrays: faces, faces with one malformed element, and faces
\* wrapped as the single frame of a multi-frame input.
TensorInputs ==
    {ArrayData(Face(n)) : n \in TensorLengths}
    \cup {ArrayData(FaceWithHole(n, kind, hole)) :
              n \in TensorLengths, kind \in HoleKinds, hole \in 1..MaxHole}
    \cup {ArrayData(<<FrameElem(Face(n))>>) : n \in TensorLengths}

TensorInit ==
    /\ currentActiveModelId \in ModelIds
    /\ onnxSession = Null
    /\ currentModelConfig \in {Null} \cup ModelIds
    /\ calls = [c \in Callers |-> IdleCall]
    /\ returned = NoReturn
    /\ tensorIn \in {[landmarks |-> l] : l \in TensorInputs}
    /\ tensorOut = NoTensorOut
    /\ pureIn = NoPureIn
    /\ pureOut = NoPureOut
    /\ monitor = NoMonitor

\* The config preprocessLandmarks reads (lines 21 and 156).
tensorConfig ==
    IF currentModelConfig # Null THEN currentModelConfig
    ELSE getActiveModelConfig(currentActiveModelId)

CallPreprocess ==
    LET pp == preprocessLandmarks(tensorIn.landmarks, tensorConfig) IN
    /\ ~tensorOut.called
    /\ tensorOut' = [called |-> TRUE, threw |-> pp.threw, data |-> pp.data]
    /\ UNCHANGED <<svcVars, tensorIn, pureVars, monitor>>

TensorNext == CallPreprocess

TensorSpec == TensorInit /\ [][TensorNext]_vars

(***************************************************************************)
(* JavaScript numbers of the post-processing helpers: a finite value on a  *)
(* grid, NaN, Infinity or -Infinity                                        *)
(***************************************************************************)
Num(v) == [k |-> "num", v |-> v]
NaN == [k |-> "nan", v |-> 0]
Infinity == [k |-> "inf", v |-> 0]
NegInfinity == [k |-> "ninf", v |-> 0]

IsNaN(x) == x.k = "nan"

\* a - b
jsSub(a, b) ==
    IF IsNaN(a) \/ IsNaN(b) THEN NaN
    ELSE IF a.k = "num" /\ b.k = "num" THEN Num(a.v - b.v)
    ELSE IF a.k = b.k THEN NaN                 \* Infinity - Infinity
    ELSE IF a.k = "inf" \/ b.k = "ninf" THEN Infinity
    ELSE NegInfinity

\* Math.max(...values): -Infinity for no values, NaN if one is NaN.
RECURSIVE jsMaxFrom(_, _, _)
jsMaxFrom(values, i, best) ==
    IF i > Len(values) THEN best
    ELSE LET x == values[i]
             next == IF IsNaN(best) \/ IsNaN(x) THEN NaN
                     ELSE IF best.k = "inf" \/ x.k = "inf" THEN Infinity
                     ELSE IF best.k = "ninf" THEN x
                     ELSE IF x.k = "ninf" THEN best
                     ELSE IF x.v > best.v THEN x ELSE best
         IN jsMaxFrom(values, i + 1, next)

jsMax(values) == jsMaxFrom(values, 1, NegInfinity)

\* The grid of Math.exp values (ExpScale stands for 1.0) and of
\* probabilities (ProbScale stands for 1.0).
ExpScale == 100
ProbScale == 10000000

\* e^d on the grid (rounded down; it underflows to 0 as Math.exp does).
RECURSIVE ExpOf(_)
ExpOf(d) ==
    IF d = 0 THEN ExpScale
    ELSE IF d < 0 THEN (ExpOf(d + 1) * 368) \div 1000
    ELSE (ExpOf(d - 1) * 2718) \div 1000

\* Math.exp of a logit difference (whole units); the result is on the
\* ExpScale grid.
jsExp(x) ==
    IF IsNaN(x) THEN NaN
    ELSE IF x.k = "ninf" THEN Num(0)
    ELSE IF x.k = "inf" THEN Infinity
    ELSE Num(ExpOf(x.v))

\* sum + val
jsAdd(a, b) ==
    IF IsNaN(a) \/ IsNaN(b) THEN NaN
    ELSE IF a.k = "num" /\ b.k = "num" THEN Num(a.v + b.v)
    ELSE IF a.k = "num" THEN b
    ELSE IF b.k = "num" \/ a.k = b.k THEN a
    ELSE NaN                                    \* Infinity + -Infinity

\* values.reduce((sum, val) => sum + val, 0)
RECURSIVE jsSumFrom(_, _, _)
jsSumFrom(values, i, sum) ==
    IF i > Len(values) THEN sum ELSE jsSumFrom(values, i + 1, jsAdd(sum, values[i]))

jsSum(values) == jsSumFrom(values, 1, Num(0))

\* exp / sumExp for non-negative operands on the ExpScale grid; the
\* quotient is on the ProbScale grid, rounded to nearest.
jsDiv(a, b) ==
    IF IsNaN(a) \/ IsNaN(b) THEN NaN
    ELSE IF a.k = "inf" THEN (IF b.k = "inf" THEN NaN ELSE Infinity)
    ELSE IF b.k = "inf" THEN Num(0)
    ELSE IF b.v = 0 THEN (IF a.v = 0 THEN NaN ELSE Infinity)
    ELSE Num((2 * a.v * ProbScale + b.v) \div (2 * b.v))

\* a > b
jsGreater(a, b) ==
    IF IsNaN(a) \/ IsNaN(b) THEN FALSE
    ELSE IF a.k = "inf" THEN b.k # "inf"
    ELSE IF b.k = "ninf" THEN a.k # "ninf"
    ELSE a.k = "num" /\ b.k = "num" /\ a.v > b.v

(***************************************************************************)
(* mapClassificationLogitsToClassDetails                                   *)
(***************************************************************************)
\* Lines 286-293: the index (0-based) of the first greatest probability,
\* -1 if none compares greater than -Infinity.
RECURSIVE argMaxFrom(_, _, _, _)
argMaxFrom(probabilities, i, maxProb, classIndex) ==
    IF i > Len(probabilities) THEN classIndex
    ELSE IF jsGreater(probabilities[i], maxProb)
    THEN argMaxFrom(probabilities, i + 1, probabilities[i], i - 1)
    ELSE argMaxFrom(probabilities, i + 1, maxProb, classIndex)

\* Lines 280-283.
softmax(logits) ==
    LET maxLogit == jsMax(logits)
        expLogits == Array([i \in 1..Len(logits) |-> jsExp(jsSub(logits[i], maxLogit))])
        sumExp == jsSum(expLogits)
    IN Array([i \in 1..Len(logits) |-> jsDiv(expLogits[i], sumExp)])

\* labels[classIndex] is truthy: the label table has numLabels names, at
\* the keys 0..numLabels-1.
HasLabel(numLabels, classIndex) == classIndex >= 0 /\ classIndex < numLabels

\* Lines 273-303 for an array of logits and a label table.
mapClassificationLogitsToClassDetails(logits, numLabels) ==
    LET probabilities == softmax(logits)
        classIndex == argMaxFrom(probabilities, 1, NegInfinity, -1)
    IN [index |-> classIndex,       \* -1 is never replaced when classIndex is -1
        name |-> IF HasLabel(numLabels, classIndex) THEN "label"
                 ELSE IF classIndex # -1 THEN "Unknown Index"
                 ELSE "Classification Failed",
        labelRead |-> classIndex,
        probabilities |-> probabilities]

\* part_003 line 288 (handleResults): probs.map((p, idx) => ({label:
\* labels[idx], probability: p})); labelRead is the index read in the label
\* table, label is undefined when the table has no such key.
mapLabels(probs, numLabels) ==
    Array([i \in 1..Len(probs) |->
              [labelRead |-> i - 1,
               label |-> IF HasLabel(numLabels, i - 1) THEN "label" ELSE "undefined",
               probability |-> probs[i]]])

(***************************************************************************)
(* mapScoreToClassDetails: a score on a grid of thousandths                *)
(***************************************************************************)
\* The fallback label table of line 245 (the names in the comments of
\* lines 256-260), by class index.
EngagementLabels ==
    [i \in 0..4 |-> CASE i = 0 -> "Not Engaged"
                      [] i = 1 -> "Barely Engaged"
                      [] i = 2 -> "Engaged"
                      [] i = 3 -> "Highly Engaged"
                      [] OTHER -> "SNP"]

\* Buckets whose upper bound is inclusive and lower bound exclusive.
scoreBucketClosedAbove(score) ==
    IF IsNaN(score) \/ score.k # "num" \/ ~(0 <= score.v /\ score.v <= 1000) THEN -1
    ELSE IF score.v <= 175 THEN 4
    ELSE IF score.v <= 400 THEN 0
    ELSE IF score.v <= 600 THEN 1
    ELSE IF score.v <= 825 THEN 2
    ELSE 3

\* Lines 250-261: the class index of a score, -1 outside [0, 1].
scoreBucket(score) ==
    IF IsNaN(score) \/ score.k # "num" \/ ~(0 <= score.v /\ score.v <= 1000) THEN -1
    ELSE IF 0 <= score.v /\ score.v < 175 THEN 4
    ELSE IF 175 <= score.v /\ score.v < 400 THEN 0
    ELSE IF 400 <= score.v /\ score.v < 600 THEN 1
    ELSE IF 600 <= score.v /\ score.v < 825 THEN 2
    ELSE IF 825 <= score.v /\ score.v <= 1000 THEN 3
    ELSE -1

NullScore == [k |-> "null", v |-> 0]

\* Lines 242-271; labels is the table in force: "engagement" for the
\* fallback table, else the 8 emotion names of a registered config.
mapScoreToClassDetails(score, labels) ==
    LET classIndex == scoreBucket(score)
        hasLabel == IF labels = "engagement" THEN classIndex \in DOMAIN EngagementLabels
                    ELSE HasLabel(8, classIndex)
    IN IF score = NullScore THEN [index |-> -1, name |-> "Prediction Failed"]
       ELSE IF classIndex = -1 THEN [index |-> -1, name |-> "Invalid Score Range"]
       ELSE IF hasLabel
       THEN [index |-> classIndex,
             name |-> IF labels = "engagement" THEN EngagementLabels[classIndex]
                      ELSE "emotion"]
       ELSE [index |-> classIndex, name |-> "Unknown Index"]

(***************************************************************************)
(* EmotionMonitor: the probabilities of the retained emotions              *)
(*   a probability p on a grid of tenths stands for p/10; a displayed      *)
(*   probability is on the DisplayScale grid                               *)
(***************************************************************************)
DisplayScale == 1000

\* e^(d/10) for d <= 0 on the DisplayScale grid.
RECURSIVE ExpTenths(_)
ExpTenths(d) == IF d >= 0 THEN DisplayScale ELSE (ExpTenths(d + 1) * 905) \div 1000

\* a / b rounded to the DisplayScale grid (b > 0).
Ratio(a, b) == (2 * a * DisplayScale + b) \div (2 * b)

\* items.filter(item => !ignoredEmotions.includes(item.label))
RECURSIVE retained(_, _)
retained(items, ignoredEmotions) ==
    IF items = <<>> THEN <<>>
    ELSE IF Head(items).label \in ignoredEmotions
    THEN retained(Tail(items), ignoredEmotions)
    ELSE <<Head(items)>> \o retained(Tail(items), ignoredEmotions)

RECURSIVE maxProbability(_)
maxProbability(items) ==
    IF Len(items) = 1 THEN items[1].probability
    ELSE LET m == maxProbability(Tail(items)) IN
         IF items[1].probability > m THEN items[1].probability ELSE m

RECURSIVE sumProbability(_)
sumProbability(items) ==
    IF items = <<>> THEN 0 ELSE Head(items).probability + sumProbability(Tail(items))

\* sort((a, b) => b.probability - a.probability): descending and stable.
RECURSIVE insertDescending(_, _)
insertDescending(sorted, item) ==
    IF sorted = <<>> THEN <<item>>
    ELSE IF Head(sorted).probability >= item.probability
    THEN <<Head(sorted)>> \o insertDescending(Tail(sorted), item)
    ELSE <<item>> \o sorted

RECURSIVE sortDescending(_)
sortDescending(items) ==
    IF items = <<>> THEN <<>>
    ELSE insertDescending(sortDescending(SubSeq(items, 1, Len(items) - 1)),
                          items[Len(items)])

\* part_003 lines 55-73.  The result's probabilities are on the DisplayScale
\* grid, except when the argument is returned as it is.
applySoftmax(probabilities, ignoredEmotions) ==
    LET filtered == retained(probabilities, ignoredEmotions) IN
    IF Len(filtered) = 0 THEN [unchanged |-> TRUE, items |-> probabilities]
    ELSE LET maxProb == maxProbability(filtered)
             expValues == Array([i \in 1..Len(filtered) |->
                 [label |-> filtered[i].label,
                  probability |-> ExpTenths(filtered[i].probability - maxProb)]])
             sumExp == sumProbability(expValues)
             normalized == Array([i \in 1..Len(expValues) |->
                 [label |-> expValues[i].label,
                  probability |-> Ratio(expValues[i].probability, sumExp)]])
         IN [unchanged |-> FALSE, items |-> sortDescending(normalized)]

\* part_003 lines 290-293 (handleResults): the retained probabilities divided
\* by their total, or by 1 when the total is 0.
renormalize(mapped, ignoredEmotions) ==
    LET remaining == retained(mapped, ignoredEmotions)
        t == sumProbability(remaining)
        total == IF t = 0 THEN 10 ELSE t          \* || 1, on the grid of tenths
    IN Array([i \in 1..Len(remaining) |->
           [label |-> remaining[i].label,
            probability |-> Ratio(remaining[i].probability, total)]])

(***************************************************************************)
(* FaceCloseUpStage.processCanvas and the crop step of handleResults       *)
(*   box and canvas sizes are whole pixels; the padded rectangle is in     *)
(*   fifths of a pixel (paddingFactor is 0.2)                              *)
(***************************************************************************)
OutputWidth == 256

Max(a, b) == IF a > b THEN a ELSE b

NoBox == [present |-> FALSE, x |-> 0, y |-> 0, width |-> 0, height |-> 0]
Box(x, y, width, height) ==
    [present |-> TRUE, x |-> x, y |-> y, width |-> width, height |-> height]

\* Math.round((h / w) * outputWidth): h / w is Infinity, -Infinity or NaN
\* when w is 0.
roundedHeight(h, w) ==
    IF w = 0 THEN (IF h = 0 THEN NaN ELSE IF h > 0 THEN Infinity ELSE NegInfinity)
    ELSE IF w > 0 THEN Num((2 * h * OutputWidth + w) \div (2 * w))
    ELSE Num((2 * (0 - h) * OutputWidth + (0 - w)) \div (2 * (0 - w)))

\* Math.max(1, v)
atLeastOne(v) ==
    IF IsNaN(v) THEN NaN
    ELSE IF v.k = "inf" THEN Infinity
    ELSE IF v.k = "ninf" THEN Num(1)
    ELSE Num(Max(1, v.v))

\* part_007 lines 37-63: what processCanvas returns, the width it divides
\* by and the output height it computes.
processCanvas(canvas, faceBox) ==
    IF ~faceBox.present
    THEN [ret |-> "null", divided |-> FALSE, w |-> 0, outH |-> Num(0)]
    ELSE LET padW == faceBox.width
             padH == faceBox.height
             x == Max(0, 5 * faceBox.x - padW)
             y == Max(0, 5 * faceBox.y - padH)
             w == Min(5 * canvas.width, 5 * faceBox.x + 5 * faceBox.width + padW) - x
             h == Min(5 * canvas.height, 5 * faceBox.y + 5 * faceBox.height + padH) - y
         IN [ret |-> "dataUrl", divided |-> TRUE, w |-> w,
             outH |-> atLeastOne(roundedHeight(h, w))]

\* part_003 lines 397-409: the monitor crops only a box with positive width
\* and height.
cropStep(canvas, faceBox) ==
    IF faceBox.width > 0 /\ faceBox.height > 0
    THEN processCanvas(canvas, faceBox)
    ELSE [ret |-> "skipped", divided |-> FALSE, w |-> 0, outH |-> Num(0)]

(***************************************************************************)
(* normalizeLandmarks of the single-frame service (inter-ocular scaling)   *)
(*   landmark coordinates are on the Unit grid, the image size is in whole *)
(*   pixels, so absolute and centred coordinates are pixels on the Unit    *)
(*   grid; two points closer than one grid step are the same point         *)
(***************************************************************************)
NUM_LANDMARKS == 478
NOSE_TIP_INDEX == 1
LEFT_EYE_INNER_CORNER_INDEX == 133
RIGHT_EYE_INNER_CORNER_INDEX == 362

\* v < 1e-6 for a value v on the Unit grid
belowEpsilon(v) == v * 1000000 < Unit

\* a / b for finite a and b on the Unit grid, as a JavaScript number
quotient(a, b) ==
    IF b = 0 THEN (IF a = 0 THEN NaN ELSE IF a > 0 THEN Infinity ELSE NegInfinity)
    ELSE IF b > 0 THEN Num((a * Unit) \div b)
    ELSE Num(((0 - a) * Unit) \div (0 - b))

\* The divisor without the fallbacks of lines 143-148.
divisorNoFallback(distance, imageWidth) == distance

\* part_006 lines 141-148: the inter-ocular distance, or imageWidth / 4.0,
\* or 1.0.
interOcularDivisor(distance, imageWidth) ==
    IF belowEpsilon(distance)
    THEN LET fallback == (imageWidth * Unit) \div 4 IN
         IF belowEpsilon(fallback) THEN Unit ELSE fallback
    ELSE distance

\* part_006 lines 127-139: the distance, in the x-y plane, of the two inner
\* eye corners after centring on the nose tip.
interOcularDistance(landmarks, imageWidth, imageHeight) ==
    LET noseTip == landmarks[NOSE_TIP_INDEX + 1]
        left == landmarks[LEFT_EYE_INNER_CORNER_INDEX + 1]
        right == landmarks[RIGHT_EYE_INNER_CORNER_INDEX + 1]
        cx(lm) == lm.x * imageWidth - noseTip.x * imageWidth
        cy(lm) == lm.y * imageHeight - noseTip.y * imageHeight
        dx == cx(left) - cx(right)
        dy == cy(left) - cy(right)
    IN Sqrt(dx * dx + dy * dy)

\* part_006 lines 117-155
normalizeLandmarks(landmarks, imageWidth, imageHeight) ==
    IF Len(landmarks) # NUM_LANDMARKS
    THEN [ret |-> "null", divisor |-> 0, points |-> <<>>]
    ELSE LET noseTip == landmarks[NOSE_TIP_INDEX + 1]
             d == interOcularDivisor(interOcularDistance(landmarks, imageWidth, imageHeight),
                                     imageWidth)
             point(lm) ==
                 <<quotient(lm.x * imageWidth - noseTip.x * imageWidth, d),
                   quotient(lm.y * imageHeight - noseTip.y * imageHeight, d),
                   quotient(lm.z * imageWidth - noseTip.z * imageWidth, d)>>
         IN [ret |-> "array", divisor |-> d,
             points |-> Array([i \in 1..NUM_LANDMARKS |-> point(landmarks[i])])]

(***************************************************************************)
(* The synchronous helpers on their own: one helper applied to one input   *)
(***************************************************************************)
MaxLogit == 4              \* finite logits are -MaxLogit..MaxLogit
MaxClasses == 3            \* logit vectors of 0..MaxClasses entries

LogitValues == {Num(v) : v \in (0 - MaxLogit)..MaxLogit} \cup {NaN, Infinity, NegInfinity}

RECURSIVE SeqsUpTo(_, _)
SeqsUpTo(S, n) ==
    IF n = 0 THEN {<<>>}
    ELSE LET shorter == SeqsUpTo(S, n - 1) IN
         shorter \cup {Append(q, x) : q \in {r \in shorter : Len(r) = n - 1}, x \in S}

\* The label tables of the registered models have 8 names; a table shorter
\* than the model's output has fewer names than there are logits.
SoftmaxInputs ==
    {[fn |-> "softmax", logits |-> l, numLabels |-> n] :
         l \in SeqsUpTo(LogitValues, MaxClasses), n \in {MaxClasses - 1, 8}}

CallSoftmax ==
    /\ pureIn.fn = "softmax"
    /\ ~pureOut.called
    /\ pureOut' = LET details == mapClassificationLogitsToClassDetails(pureIn.logits,
                                                                       pureIn.numLabels)
                   IN [called |-> TRUE, details |-> details,
                       mapped |-> mapLabels(details.probabilities, pureIn.numLabels)]
    /\ UNCHANGED <<svcVars, tensorVars, pureIn, monitor>>

\* Distributions over three emotions on the grid of tenths, and the
\* emotions the user ignores.
EmotionLabels == 0..2

DisplayInputs ==
    UNION {{[fn |-> "display",
             probabilities |-> <<[label |-> 0, probability |-> a],
                                 [label |-> 1, probability |-> b],
                                 [label |-> 2, probability |-> 10 - a - b]>>,
             ignoredEmotions |-> ig] :
                b \in 0..(10 - a), ig \in SUBSET EmotionLabels} : a \in 0..10}

\* What the monitor shows for one prediction: the list (getDisplayProbabilities)
\* and the numbers behind the detected emotion (handleResults).
CallDisplay ==
    /\ pureIn.fn = "display"
    /\ ~pureOut.called
    /\ pureOut' = [called |-> TRUE,
                   display |-> applySoftmax(pureIn.probabilities, pureIn.ignoredEmotions),
                   normalized |-> renormalize(pureIn.probabilities, pureIn.ignoredEmotions)]
    /\ UNCHANGED <<svcVars, tensorVars, pureIn, monitor>>

MaxOver == 5               \* scores from -MaxOver/1000 to 1 + MaxOver/1000

ScoreValues ==
    {Num(v) : v \in (0 - MaxOver)..(1000 + MaxOver)} \cup {NaN, NullScore}

ScoreInputs ==
    {[fn |-> "mapScore", score |-> sc, labels |-> l] :
         sc \in ScoreValues, l \in {"engagement", "config"}}

CallMapScore ==
    /\ pureIn.fn = "mapScore"
    /\ ~pureOut.called
    /\ pureOut' = [called |-> TRUE,
                   details |-> mapScoreToClassDetails(pureIn.score, pureIn.labels)]
    /\ UNCHANGED <<svcVars, tensorVars, pureIn, monitor>>

CanvasWidth == 6           \* the frame is CanvasWidth x CanvasHeight pixels
CanvasHeight == 4
MaxBox == 3                \* face boxes of 0..MaxBox pixels a side

\* A caller of processCanvas passes any box or none; the monitor passes the
\* bounding box of the landmarks.
CropInputs ==
    {[fn |-> "crop", via |-> via, canvas |-> [width |-> CanvasWidth, height |-> CanvasHeight],
      faceBox |-> Box(x, y, bw, bh)] :
         via \in {"direct", "monitor"}, x \in 0..CanvasWidth, y \in 0..CanvasHeight,
         bw \in 0..MaxBox, bh \in 0..MaxBox}
    \cup {[fn |-> "crop", via |-> "direct",
           canvas |-> [width |-> CanvasWidth, height |-> CanvasHeight], faceBox |-> NoBox]}

CallCrop ==
    /\ pureIn.fn = "crop"
    /\ ~pureOut.called
    /\ pureOut' = [called |-> TRUE,
                   crop |-> IF pureIn.via = "monitor"
                            THEN cropStep(pureIn.canvas, pureIn.faceBox)
                            ELSE processCanvas(pureIn.canvas, pureIn.faceBox)]
    /\ UNCHANGED <<svcVars, tensorVars, pureIn, monitor>>

MaxImage == 4               \* the video frame is 0..MaxImage pixels a side

\* Where the callers' eye corners lie in the frame.
EyeCoords == {0, Unit \div 2, Unit - 1}

NormalizeInputs ==
    {[fn |-> "normalize", count |-> NUM_LANDMARKS, leftEye |-> <<lx, ly>>,
      rightEye |-> <<rx, ry>>, imageWidth |-> w, imageHeight |-> h] :
         lx \in EyeCoords, ly \in EyeCoords, rx \in EyeCoords, ry \in EyeCoords,
         w \in 0..MaxImage, h \in {0, MaxImage}}
    \cup {[fn |-> "normalize", count |-> n, leftEye |-> <<0, 0>>, rightEye |-> <<0, 0>>,
           imageWidth |-> MaxImage, imageHeight |-> MaxImage] :
              n \in {0, NUM_LANDMARKS - 1, NUM_LANDMARKS + 1}}

\* The landmark array of an input: a face with its inner eye corners at the
\* given places.
normalizeArgument(in) ==
    Array([i \in 1..in.count |->
              IF i = LEFT_EYE_INNER_CORNER_INDEX + 1
              THEN Lm(in.leftEye[1], in.leftEye[2], 0)
              ELSE IF i = RIGHT_EYE_INNER_CORNER_INDEX + 1
              THEN Lm(in.rightEye[1], in.rightEye[2], 0)
              ELSE FacePoint(i - 1)])

CallNormalize ==
    /\ pureIn.fn = "normalize"
    /\ ~pureOut.called
    /\ pureOut' = [called |-> TRUE,
                   normalized |-> normalizeLandmarks(normalizeArgument(pureIn),
                                                     pureIn.imageWidth, pureIn.imageHeight)]
    /\ UNCHANGED <<svcVars, tensorVars, pureIn, monitor>>

MaxExtra == 6              \* landmarks after the last reference landmark

\* Frames handed to applyDistanceNormalization: count points of a face, the
\* points named in missing sentinel-filled, the eye corners apart or at one
\* place, and one point (JS index 4) a real landmark whose z is -1.0 (edge
\* "real") or whose z is 1.0 below the nose tip's (edge "translated").
DistanceInputs ==
    {[fn |-> "distance", count |-> n, missing |-> ms, edge |-> e, eyes |-> ey] :
         n \in {0, NOSE_TIP_IDX, NOSE_TIP_IDX + 1, LEFT_EYE_OUTER_IDX + 1,
                RIGHT_EYE_OUTER_IDX, RIGHT_EYE_OUTER_IDX + 1,
                RIGHT_EYE_OUTER_IDX + 1 + MaxExtra},
         ms \in SUBSET {"nose", "leftEye", "rightEye", "other"},
         e \in {"none", "real", "translated"},
         ey \in {"apart", "coincide"}}

distanceFrame(in) ==
    LET raw(i) == <<FacePoint(i).x, FacePoint(i).y, FacePoint(i).z>>
        point(i) ==
            IF \/ i = NOSE_TIP_IDX /\ "nose" \in in.missing
               \/ i = LEFT_EYE_OUTER_IDX /\ "leftEye" \in in.missing
               \/ i = RIGHT_EYE_OUTER_IDX /\ "rightEye" \in in.missing
               \/ i = 5 /\ "other" \in in.missing
            THEN SentinelPoint(3)
            ELSE IF i = RIGHT_EYE_OUTER_IDX /\ in.eyes = "coincide"
            THEN raw(LEFT_EYE_OUTER_IDX)
            ELSE IF i = 4 /\ in.edge = "real"
            THEN <<raw(i)[1], raw(i)[2], Sentinel>>
            ELSE IF i = 4 /\ in.edge = "translated"
            THEN <<raw(i)[1], raw(i)[2], raw(NOSE_TIP_IDX)[3] + Sentinel>>
            ELSE raw(i)
    IN Array([j \in 1..in.count |-> point(j - 1)])

CallDistanceNormalization ==
    /\ pureIn.fn = "distance"
    /\ ~pureOut.called
    /\ pureOut' = [called |-> TRUE,
                   frames |-> applyDistanceNormalization(<<distanceFrame(pureIn)>>)]
    /\ UNCHANGED <<svcVars, tensorVars, pureIn, monitor>>

PureInputs ==
    SoftmaxInputs \cup DisplayInputs \cup ScoreInputs \cup CropInputs \cup NormalizeInputs
    \cup DistanceInputs

PureInit ==
    /\ currentActiveModelId = DefaultModelId
    /\ onnxSession = Null
    /\ currentModelConfig = Null
    /\ calls = [c \in Callers |-> IdleCall]
    /\ returned = NoReturn
    /\ tensorIn = NoTensorIn
    /\ tensorOut = NoTensorOut
    /\ pureIn \in PureInputs
    /\ pureOut = NoPureOut
    /\ monitor = NoMonitor

PureNext ==
    \/ CallSoftmax
    \/ CallDisplay
    \/ CallMapScore
    \/ CallCrop
    \/ CallNormalize
    \/ CallDistanceNormalization

PureSpec == PureInit /\ [][PureNext]_vars

(***************************************************************************)
(* EmotionMonitor: the frame callback handleResults and its two throttles  *)
(*   kind "current" is the monitor with the zoomed-crop pass, "earlier"    *)
(*   the one without; times are Date.now() readings in milliseconds        *)
(***************************************************************************)
ZOOM_INFERENCE_INTERVAL_MS == 1500
ENABLE_ZOOM_PREDICTIONS == TRUE

\* The literal the main throttle compares with.
MainInterval(kind) == IF kind = "current" THEN 1000 ELSE 1500

TimeStep == 500            \* the clock advances in steps of TimeStep ms
StartTime == 2000          \* Date.now() when the monitor mounts
MaxTicks == 5              \* the clock stops after MaxTicks steps
MaxFrames == 2             \* detector results whose callback has not finished

Frames == 1..MaxFrames

\* A callback invocation: where it is suspended and what it closed over
\* (the detector result and the isActive and onnxModelReady states of its
\* render).
IdleFrame ==
    [pc |-> "idle", results |-> "none", isActive |-> FALSE, onnxModelReady |-> FALSE]

\* A throttle that forgets the last run.
throttleIgnoresLast(now, last, interval) == now >= interval

\* now - lastInferenceTimeRef.current >= 1000, and the zoom throttle's test.
throttleOpen(now, last, interval) == now - last >= interval

\* The end of a callback's main part: the current monitor crops a box of
\* positive size (await stageRef.current.processCanvas), the earlier one
\* returns.
afterMainPass(f, results, isActive, onnxModelReady) ==
    IF monitor.kind = "current" /\ results = "face"
    THEN [monitor.frames EXCEPT ![f] = [pc |-> "crop", results |-> results,
                                        isActive |-> isActive,
                                        onnxModelReady |-> onnxModelReady]]
    ELSE [monitor.frames EXCEPT ![f] = IdleFrame]

\* The detector delivers a result: handleResults runs up to its first await.
\* The driver calls it once per result and does not wait for the promise it
\* returns.  results is "none" (no face), "face", or "flat" (a face whose
\* bounding box has no area).
HandleResults(f, results, isActive, onnxModelReady) ==
    /\ monitor.kind # "none"
    /\ monitor.frames[f].pc = "idle"
    /\ IF results = "none"
       THEN UNCHANGED monitor
       ELSE IF /\ isActive /\ onnxModelReady
               /\ throttleOpen(monitor.now, monitor.lastInferenceTime,
                               MainInterval(monitor.kind))
       THEN monitor' = [monitor EXCEPT
                !.lastInferenceTime = monitor.now,
                !.mainStarts = Append(@, monitor.now),
                !.frames[f] = [pc |-> "main", results |-> results,
                               isActive |-> isActive,
                               onnxModelReady |-> onnxModelReady]]
       ELSE monitor' = [monitor EXCEPT
                !.frames = afterMainPass(f, results, isActive, onnxModelReady)]
    /\ UNCHANGED <<svcVars, tensorVars, pureVars>>

\* await predictEngagement(...) of the main pass settles.
ResumeMain(f) ==
    /\ monitor.kind # "none"
    /\ monitor.frames[f].pc = "main"
    /\ monitor' = [monitor EXCEPT
           !.frames = afterMainPass(f, monitor.frames[f].results,
                                    monitor.frames[f].isActive,
                                    monitor.frames[f].onnxModelReady)]
    /\ UNCHANGED <<svcVars, tensorVars, pureVars>>

\* await processCanvas settles: the zoom throttle (lines 411-414).
ResumeCrop(f) ==
    /\ monitor.kind # "none"
    /\ monitor.frames[f].pc = "crop"
    /\ IF /\ ENABLE_ZOOM_PREDICTIONS /\ monitor.frames[f].onnxModelReady
          /\ throttleOpen(monitor.now, monitor.lastZoomTime, ZOOM_INFERENCE_INTERVAL_MS)
       THEN monitor' = [monitor EXCEPT
                !.lastZoomTime = monitor.now,
                !.zoomStarts = Append(@, monitor.now),
                !.frames[f].pc = "zoom"]
       ELSE monitor' = [monitor EXCEPT !.frames[f] = IdleFrame]
    /\ UNCHANGED <<svcVars, tensorVars, pureVars>>

\* await predictEngagement(zoomLandmarks, ...) settles.
ResumeZoom(f) ==
    /\ monitor.kind # "none"
    /\ monitor.frames[f].pc = "zoom"
    /\ monitor' = [monitor EXCEPT !.frames[f] = IdleFrame]
    /\ UNCHANGED <<svcVars, tensorVars, pureVars>>

\* Time passes.
Tick ==
    /\ monitor.kind # "none"
    /\ monitor.now < StartTime + MaxTicks * TimeStep
    /\ monitor' = [monitor EXCEPT !.now = @ + TimeStep]
    /\ UNCHANGED <<svcVars, tensorVars, pureVars>>

\* mainStarts and zoomStarts are no refs of the code: they record the clock
\* readings at which each pass started an inference.
MonitorInit ==
    /\ currentActiveModelId = DefaultModelId
    /\ onnxSession = Null
    /\ currentModelConfig = Null
    /\ calls = [c \in Callers |-> IdleCall]
    /\ returned = NoReturn
    /\ tensorIn = NoTensorIn
    /\ tensorOut = NoTensorOut
    /\ pureIn = NoPureIn
    /\ pureOut = NoPureOut
    /\ \E kind \in {"current", "earlier"} :
           monitor = [kind |-> kind, now |-> StartTime,
                      lastInferenceTime |-> 0, lastZoomTime |-> 0,
                      mainStarts |-> <<>>, zoomStarts |-> <<>>,
                      frames |-> [f \in Frames |-> IdleFrame]]

MonitorNext ==
    \/ \E f \in Frames, results \in {"none", "face", "flat"},
          isActive \in BOOLEAN, onnxModelReady \in BOOLEAN :
              HandleResults(f, results, isActive, onnxModelReady)
    \/ \E f \in Frames : ResumeMain(f)
    \/ \E f \in Frames : ResumeCrop(f)
    \/ \E f \in Frames : ResumeZoom(f)
    \/ Tick

MonitorSpec == MonitorInit /\ [][MonitorNext]_vars

(***************************************************************************)
(* Properties of the session manager (specification Spec)                  *)
(***************************************************************************)
\* The last step was a return of fn.
Returned(fn) == returned.fn = fn

\* C1: switchModel(id) called when id is the active model and a session is
\* live returns true and is a no-op: the session and the cached config are
\* left as they were.
C1_SwitchActiveIsNoOp ==
    (Returned("switch") /\ returned.wasActive /\ returned.hadSession)
        => /\ returned.ret = "true"
           /\ onnxSession # Null
           /\ currentModelConfig # Null

\* C1, as the code has it: switchModel(id) called when id is the active
\* model and a session is live returns true and keeps the active id, but
\* it clears the session and the cached config, so no model is loaded until
\* the next predictEngagement or initializeOnnxModel loads it again.
C1_SwitchActiveClears ==
    (Returned("switch") /\ returned.wasActive /\ returned.hadSession)
        => /\ returned.ret = "true"
           /\ currentActiveModelId = returned.arg
           /\ onnxSession = Null
           /\ currentModelConfig = Null

C1_Witness ==
    /\ Returned("switch") /\ returned.wasActive /\ returned.hadSession
    /\ returned.ret = "true"
    /\ returned.arg \in ModelIds

C3_InitFailureClears ==
    Returned("init")
        => /\ returned.ret \in {"true", "false"}
           /\ returned.ret = "false" => (onnxSession = Null /\ currentModelConfig = Null)

\* Every strategy failed while a session was live.
C3_Witness ==
    /\ Returned("init") /\ returned.ret = "false" /\ returned.hadSession
    /\ Len(returned.log) = 4
    /\ onnxSession = Null

\* The order of the load strategies; a direct path is named by its prefix.
StrategyOrder == <<"getOnnxModelUri", "fetchModelFromHooks", "/models/", "./models/">>

\* The strategies tried are the first ones of the order and none but the
\* last tried succeeded.
TriedInOrder(log) ==
    /\ Len(log) <= Len(StrategyOrder)
    /\ \A i \in 1..Len(log) :
           /\ log[i].s = StrategyOrder[i]
           /\ i < Len(log) => ~log[i].ok

\* C4: initializeOnnxModel tries the strategies in the fixed order, accepts
\* the first that yields a session and tries none after it, and reports
\* failure only if every strategy and every candidate path failed.
C4_StrategiesInOrder ==
    /\ \A c \in Callers : TriedInOrder(calls[c].log)
    /\ (Returned("init") /\ returned.log # <<>>)
           => /\ TriedInOrder(returned.log)
              /\ returned.ret = "true" => returned.log[Len(returned.log)].ok
              /\ returned.ret = "false"
                     => /\ Len(returned.log) = Len(StrategyOrder)
                        /\ \A i \in 1..Len(returned.log) : ~returned.log[i].ok

C6_PredictNeverThrows ==
    Returned("predict") => returned.ret \in {"result", "null"}

\* Null from preprocessing (the first element is null) after a lazy
\* initialization that succeeded.
C6_Witness ==
    /\ Returned("predict") /\ returned.ret = "null"
    /\ returned.input = "nullFirst"
    /\ returned.initRet = "true"

\* C7: reloadCurrentModel reinitializes with the id that was active when it
\* was called: the active id is the same at its return, when it returns
\* true the live session is the one of that id, and it returns false when
\* the load fails.
C7_ReloadKeepsActive ==
    (Returned("reload") /\ returned.arg \in ModelIds)
        => /\ returned.ret \in {"true", "false"}
           /\ currentActiveModelId = returned.arg
           /\ returned.ret = "true"
                  => /\ onnxSession = MODEL_CONFIGS[returned.arg].filename
                     /\ currentModelConfig = returned.arg

\* C8: setActiveModel returns true and makes an id active only if it is a
\* key of the registry (so switchModel, which returns false when
\* setActiveModel does, returns true only for a registered id), the active
\* id is always a registered one and getActiveModelConfig() returns a
\* registered config.
C8_ActiveIsRegistered ==
    /\ (Returned("switch") /\ returned.ret = "true") => returned.arg \in ModelIds
    /\ currentActiveModelId \in ModelIds
    /\ getActiveModelConfig(currentActiveModelId) \in ModelIds

(***************************************************************************)
(* Properties of the tensor builder (specification TensorSpec)             *)
(***************************************************************************)
\* An array of landmark objects (with or without numeric coordinates).
IsLandmarkArray(landmarks) ==
    /\ landmarks.isArray
    /\ \A j \in DOMAIN landmarks.items : landmarks.items[j].kind = "lm"

\* The landmarks of the input's frame.
InputFrame(landmarks) ==
    IF landmarks.isArray /\ Len(landmarks.items) > 0 /\ landmarks.items[1].kind = "frame"
    THEN landmarks.items[1].items
    ELSE landmarks.items

\* The input has a landmark with numeric x, y and z at slot j.
HasLandmark(landmarks, j) ==
    LET frame == InputFrame(landmarks) IN
    /\ j <= Len(frame)
    /\ frame[j].kind = "lm"
    /\ frame[j].nx /\ frame[j].ny /\ frame[j].nz

\* C9: for every array of landmark objects (fewer than, exactly or more
\* than numLandmarks entries) preprocessLandmarks returns a buffer of length
\* exactly sequenceLength * numLandmarks * numCoords of the active config,
\* which is the product of the declared tensor shape.
C9_BufferLength ==
    tensorOut.called
        => LET cfg == MODEL_CONFIGS[tensorConfig] IN
           /\ IsLandmarkArray(tensorIn.landmarks) => ~tensorOut.threw
           /\ ~tensorOut.threw
                  => /\ Len(tensorOut.data)
                            = cfg.sequenceLength * cfg.numLandmarks * cfg.numCoords
                     /\ Len(tensorOut.data) = Product(cfg.tensorShape)

\* More landmarks than the model takes.
C9_Witness ==
    /\ tensorOut.called /\ ~tensorOut.threw
    /\ IsLandmarkArray(tensorIn.landmarks)
    /\ Len(tensorIn.landmarks.items) > MODEL_CONFIGS[tensorConfig].numLandmarks
    /\ Len(tensorOut.data) = Product(MODEL_CONFIGS[tensorConfig].tensorShape)

\* C10: in the buffer, every slot for which the input has no landmark, or
\* a landmark without numeric x, y and z, holds -1.0 in all three
\* coordinates.
C10_MissingSlotsSentinel ==
    (tensorOut.called /\ ~tensorOut.threw)
        => LET cfg == MODEL_CONFIGS[tensorConfig] IN
           \A j \in 1..cfg.numLandmarks :
               ~HasLandmark(tensorIn.landmarks, j)
                   => \A k \in 1..cfg.numCoords :
                          /\ (j - 1) * cfg.numCoords + k \in DOMAIN tensorOut.data
                          /\ tensorOut.data[(j - 1) * cfg.numCoords + k] = Sentinel

\* A short face with a landmark that has no numeric z: that slot and the
\* slots past the end hold -1.0, the first slot holds the landmark.
C10_Witness ==
    /\ tensorOut.called /\ ~tensorOut.threw
    /\ IsLandmarkArray(tensorIn.landmarks)
    /\ Len(tensorIn.landmarks.items) < MODEL_CONFIGS[tensorConfig].numLandmarks
    /\ \E j \in DOMAIN tensorIn.landmarks.items :
           /\ ~tensorIn.landmarks.items[j].nz
           /\ tensorIn.landmarks.items[j].nx
           /\ tensorOut.data[(j - 1) * 3 + 1] = Sentinel
    /\ tensorOut.data[1] # Sentinel

\* C16: a switch or re-initialization while predictEngagement awaits the
\* model run invalidates the call: a prediction it returns was computed by
\* the session that is live when it returns.
C16_SwitchInvalidatesPredict ==
    (Returned("predict") /\ returned.ret = "result") => returned.resSess = onnxSession

\* C17: whenever a session is live, currentModelConfig is set and is the
\* configuration of the model file the session was created from.
C17_SessionMatchesConfig ==
    onnxSession # Null =>
        /\ currentModelConfig \in ModelIds
        /\ MODEL_CONFIGS[currentModelConfig].filename = onnxSession

\* Caller c's initializeOnnxModel has just completed after a newer one
\* had started during its load, and no load is in flight any more.
StaleLoadDone(c) ==
    /\ \/ calls[c].pc = "afterInit" /\ calls[c].newer # Null
       \/ c = "ui" /\ Returned("init") /\ returned.newer # Null
    /\ \A d \in Callers : calls[d].pc \notin LoadAwaits

NewerOf(c) == IF calls[c].pc = "afterInit" THEN calls[c].newer ELSE returned.newer

\* C20: when two loads overlap the request issued last wins: once both have
\* completed, a live session is the session of the last request's model file
\* and a cached config is the last request's config, whichever load finished
\* last.
C20_LastRequestWins ==
    \A c \in Callers :
        StaleLoadDone(c) =>
            /\ onnxSession # Null => onnxSession = MODEL_CONFIGS[NewerOf(c)].filename
            /\ currentModelConfig # Null => currentModelConfig = NewerOf(c)

\* C24: getCurrentModelInfo() is null when initialization has failed and no
\* model is loaded, and otherwise the config bound to the live session.
C24_InfoNullWhenNotLoaded ==
    LET info == getCurrentModelInfo(currentModelConfig, currentActiveModelId) IN
    /\ (Returned("init") /\ returned.ret = "false" /\ onnxSession = Null) => info = Null
    /\ onnxSession # Null =>
           info \in ModelIds /\ MODEL_CONFIGS[info].filename = onnxSession

\* The step is one of a predictEngagement call that found a session live
\* when it was made: the call itself, or its return from the model run.
PredictStepWithSession ==
    \/ /\ calls["frame"].pc = "idle"
       /\ onnxSession # Null
       /\ calls'["frame"].fn = "predict" \/ returned'.fn = "predict"
    \/ /\ calls["frame"].pc = "run"
       /\ calls["frame"].initRet = "none"
       /\ returned'.fn = "predict"

\* C25: a predictEngagement call made while a session is live leaves the
\* session, the cached config and the registry's active id unchanged, whether
\* it returns a result or null.
C25_PredictLeavesStateAlone ==
    [][PredictStepWithSession =>
           /\ onnxSession' = onnxSession
           /\ currentModelConfig' = currentModelConfig
           /\ currentActiveModelId' = currentActiveModelId]_vars

\* A call made with a session live has returned a result from the model run.
C25_Witness ==
    /\ Returned("predict")
    /\ returned.initRet = "none"
    /\ returned.pc = "run"
    /\ returned.ret = "result"
    /\ onnxSession # Null

\* A load strategy of the call's initializeOnnxModel created a session.
LoadSucceeded(log) == \E i \in 1..Len(log) : log[i].ok

\* C27: the predictEngagement call that follows a switchModel(id) that
\* returned true for a registered id finds no session and initializes the
\* model for id; if the load succeeds it returns a result, and a result it
\* returns has model_id id.
C27_PredictAfterSwitchUsesNewModel ==
    (Returned("predict") /\ returned.after # Null /\ returned.input = "face") =>
        /\ returned.initRet # "none"
        /\ (returned.pc = "afterInit" /\ LoadSucceeded(returned.log)) =>
               returned.ret = "result"
        /\ returned.ret = "result" => returned.resModel = returned.after

\* The ids a caller may pass that are no key of the registry.
UnregisteredIds == ModelIdInputs \ ModelIds

\* This step calls initializeOnnxModel(modelId): the call is suspended at its
\* first await, or has returned from its synchronous part.
InitCalledWith(modelId) ==
    \/ \E c \in Callers : /\ calls[c].pc = "idle"
                          /\ calls'[c].fn = "init"
                          /\ calls'[c].arg = modelId
    \/ /\ returned'.fn = "init"
       /\ returned'.pc = "start"
       /\ returned'.arg = modelId

\* C28: initializeOnnxModel(modelId) with a modelId that is not in the
\* registry does not fail for that reason (it reaches its load), leaves the
\* registry's active id unchanged and resolves the active model's
\* configuration; when the load succeeds it returns true with the session
\* bound to the active model.
C28_UnregisteredIdLoadsActive ==
    /\ [][\A modelId \in UnregisteredIds :
             InitCalledWith(modelId) =>
                 /\ currentActiveModelId' = currentActiveModelId
                 /\ currentModelConfig' = currentActiveModelId
                 /\ returned'.fn # "init"]_vars
    /\ []((Returned("init") /\ returned.arg \in UnregisteredIds
             /\ LoadSucceeded(returned.log)) =>
               /\ returned.ret = "true"
               /\ onnxSession = MODEL_CONFIGS[currentActiveModelId].filename)

\* C29: switchModel(modelId) with an unregistered modelId returns false and
\* changes nothing: the session, the cached config and the registry's
\* active id are after the call what they were before it.
C29_SwitchUnregisteredNoOp ==
    [][(returned'.fn = "switch" /\ returned'.arg \in UnregisteredIds) =>
           /\ returned'.ret = "false"
           /\ UNCHANGED <<onnxSession, currentModelConfig, currentActiveModelId>>]_vars

(***************************************************************************)
(* Properties of the monitor's throttles (specification MonitorSpec)       *)
(***************************************************************************)
\* Successive entries of starts are at least interval apart.
Spaced(starts, interval) ==
    \A i \in 1..(Len(starts) - 1) : starts[i + 1] - starts[i] >= interval

Mounted == monitor.kind # "none"

InFlight(pc) == {f \in Frames : monitor.frames[f].pc = pc}

PausedCallbackStep(f) ==
    /\ monitor'.frames[f] # monitor.frames[f]
    /\ IF monitor.frames[f].pc = "idle"
       THEN ~monitor'.frames[f].isActive
       ELSE ~monitor.frames[f].isActive

\* C30: while the monitor is paused a frame callback starts no inference:
\* a callback that saw isActive false awaits neither the main-frame nor the
\* zoomed-crop predictEngagement, and none of its steps advances a throttle
\* timestamp.
C30_PausedStartsNoInference ==
    /\ [](Mounted =>
            \A f \in Frames :
                monitor.frames[f].pc \in {"main", "zoom"} => monitor.frames[f].isActive)
    /\ [][Mounted =>
            \A f \in Frames :
                PausedCallbackStep(f) =>
                    /\ monitor'.lastInferenceTime = monitor.lastInferenceTime
                    /\ monitor'.lastZoomTime = monitor.lastZoomTime]_vars

(***************************************************************************)
(* Properties of the synchronous helpers (specification PureSpec)          *)
(***************************************************************************)
\* The helper fn has been applied.
Applied(fn) == pureIn.fn = fn /\ pureOut.called

\* The sum of finite grid values.
RECURSIVE SumV(_)
SumV(values) == IF values = <<>> THEN 0 ELSE Head(values).v + SumV(Tail(values))

\* 1e-6 on the probability grid.
SumTolerance == ProbScale \div 1000000

\* C11: for every logit vector given to mapClassificationLogitsToClassDetails
\* each returned probability lies in [0, 1] and the probabilities sum to 1.0
\* within 1e-6.
C11_SoftmaxIsDistribution ==
    Applied("softmax")
        => LET p == pureOut.details.probabilities IN
           /\ \A i \in DOMAIN p : p[i].k = "num" /\ p[i].v >= 0 /\ p[i].v <= ProbScale
           /\ SumV(p) >= ProbScale - SumTolerance
           /\ SumV(p) <= ProbScale + SumTolerance

\* The probability the list shows for a label.
Displayed(items, label) ==
    LET i == CHOOSE i \in DOMAIN items : items[i].label = label IN items[i].probability

\* Two numbers on the DisplayScale grid agree up to rounding.
Close(a, b) == a - b <= 2 /\ b - a <= 2

\* C12: with some emotions ignored, the displayed probability of each
\* retained class is its original probability divided by the sum of the
\* retained probabilities; with every class ignored the original list is
\* returned unchanged.
C12_RetainedRenormalized ==
    Applied("display")
        => LET kept == retained(pureIn.probabilities, pureIn.ignoredEmotions)
               total == sumProbability(kept)
           IN /\ kept = <<>> => (pureOut.display.unchanged
                                 /\ pureOut.display.items = pureIn.probabilities)
              /\ (kept # <<>> /\ total > 0)
                     => \A i \in DOMAIN kept :
                            Close(Displayed(pureOut.display.items, kept[i].label),
                                  Ratio(kept[i].probability, total))

\* mapScoreToClassDetails was applied to the score v/1000.
ScoreIs(v) == Applied("mapScore") /\ pureIn.score = Num(v)

\* A score on a boundary is in the upper of the two buckets.
BoundariesMapUp ==
    /\ ScoreIs(175) => pureOut.details.index = 0
    /\ ScoreIs(400) => pureOut.details.index = 1
    /\ ScoreIs(600) => pureOut.details.index = 2
    /\ ScoreIs(825) => pureOut.details.index = 3

\* C13: mapScoreToClassDetails maps 0.5 to the "Engaged" bucket, and a score
\* equal to a bucket boundary (0.175, 0.40, 0.60, 0.825) to the upper of
\* the two adjacent buckets.
C13_HalfIsEngaged ==
    /\ ScoreIs(500)
           => /\ pureOut.details.index = 2
              /\ pureIn.labels = "engagement" => pureOut.details.name = "Engaged"
    /\ BoundariesMapUp

\* C13, as the code has it: 0.5 is in the bucket [0.40, 0.60), class index
\* 1, "Barely Engaged" ("Engaged" is [0.60, 0.825)); a score equal to a
\* boundary is in the upper of the two buckets, and the buckets are
\* half-open with the lower bound inclusive.
C13_HalfIsBarelyEngaged ==
    /\ ScoreIs(500)
           => /\ pureOut.details.index = 1
              /\ pureIn.labels = "engagement" => pureOut.details.name = "Barely Engaged"
    /\ BoundariesMapUp
    /\ (ScoreIs(174) => pureOut.details.index = 4)
    /\ (ScoreIs(399) => pureOut.details.index = 0)
    /\ (ScoreIs(599) => pureOut.details.index = 1)
    /\ (ScoreIs(824) => pureOut.details.index = 2)

C13_Witness ==
    /\ ScoreIs(500)
    /\ pureIn.labels = "engagement"
    /\ pureOut.details.name = "Barely Engaged"

\* C14: processCanvas given a face box of width 0 or height 0 returns null
\* or skips the crop, and never computes an output size by dividing by a
\* zero width.
C14_EmptyBoxSkipped ==
    Applied("crop")
        => /\ (pureIn.faceBox.present
               /\ (pureIn.faceBox.width = 0 \/ pureIn.faceBox.height = 0))
                  => pureOut.crop.ret \in {"null", "skipped"}
           /\ pureOut.crop.divided => pureOut.crop.w # 0

\* The inter-ocular distance of the input the helper was applied to.
InputDistance ==
    interOcularDistance(normalizeArgument(pureIn), pureIn.imageWidth, pureIn.imageHeight)

EyesCoincide == InputDistance * 1000000 < Unit

AllFinite(points) ==
    \A i \in 1..Len(points) : \A j \in 1..3 : points[i][j].k = "num"

\* C15: normalizeLandmarks divides by the distance between the two inner eye
\* corners unless that is below 1e-6, then by imageWidth / 4 unless that is
\* below 1e-6 too, then by 1.0; the divisor is never below 1e-6, and when
\* the two eye landmarks coincide the output holds no NaN and no Infinity.
C15_DivisorFallback ==
    (Applied("normalize") /\ pureOut.normalized.ret = "array") =>
        LET d == pureOut.normalized.divisor
            quarter == (pureIn.imageWidth * Unit) \div 4
        IN /\ d = IF ~EyesCoincide THEN InputDistance
                  ELSE IF quarter * 1000000 >= Unit THEN quarter
                  ELSE Unit
           /\ d * 1000000 >= Unit
           /\ EyesCoincide => AllFinite(pureOut.normalized.points)

\* The eye corners coincide in a frame of width 0: the divisor is 1.0.
C15_Witness ==
    /\ Applied("normalize")
    /\ pureOut.normalized.ret = "array"
    /\ EyesCoincide
    /\ pureIn.imageWidth = 0
    /\ pureOut.normalized.divisor = Unit
    /\ AllFinite(pureOut.normalized.points)

(***************************************************************************)
(* Properties of applyDistanceNormalization (specification PureSpec)       *)
(***************************************************************************)
InFrame == distanceFrame(pureIn)
OutFrame == pureOut.frames[1]

SentinelFilled(p) == p = SentinelPoint(3)

\* The frame has the three reference landmarks and none is sentinel-filled.
ReferencesPresent ==
    /\ pureIn.count > RIGHT_EYE_OUTER_IDX
    /\ pureIn.missing \cap {"nose", "leftEye", "rightEye"} = {}

\* The distance of the two eye corners of the input frame, in the x-y plane.
InScaleDistance ==
    LET p1 == InFrame[LEFT_EYE_OUTER_IDX + 1]
        p2 == InFrame[RIGHT_EYE_OUTER_IDX + 1]
    IN Sqrt((p1[1] - p2[1]) * (p1[1] - p2[1]) + (p1[2] - p2[2]) * (p1[2] - p2[2]))

Norm(p) == Sqrt(p[1] * p[1] + p[2] * p[2] + p[3] * p[3])

\* p moved to the centre's frame and divided by the scale distance sd, or
\* put on the sphere of radius 5 when it is farther than 5 sd.
Normalized(p, center, sd) ==
    LET t == <<p[1] - center[1], p[2] - center[2], p[3] - center[3]>> IN
    IF Norm(t) > 5 * sd
    THEN [k \in 1..3 |-> (t[k] * 5 * Unit) \div Norm(t)]
    ELSE [k \in 1..3 |-> (t[k] * Unit) \div sd]

\* C21: a point that is (-1, -1, -1) in the normalizer's input is
\* (-1, -1, -1) in its output, and every other point of a frame that has its
\* references and a scale distance is translated and scaled.
C21_OnlySentinelsPassThrough ==
    Applied("distance") =>
        \A j \in 1..pureIn.count :
            /\ SentinelFilled(InFrame[j]) => SentinelFilled(OutFrame[j])
            /\ (/\ ~SentinelFilled(InFrame[j])
                /\ ReferencesPresent
                /\ pureIn.eyes = "apart")
               => OutFrame[j] = Normalized(InFrame[j], InFrame[NOSE_TIP_IDX + 1],
                                           InScaleDistance)

\* The grid's rounding of a distance of 5.
ClampTolerance == (5 * Unit) \div 50

\* C22: after scaling by the eye-corner distance every non-sentinel point
\* lies at distance at most 5 from the origin: a point farther from the
\* centre than 5 times the scale distance is put on the sphere of radius 5,
\* a point within the threshold is only divided by the scale distance.
C22_ClampedToFive ==
    (Applied("distance") /\ ReferencesPresent /\ pureIn.eyes = "apart") =>
        \A j \in 1..pureIn.count :
            ~SentinelFilled(InFrame[j]) =>
                LET center == InFrame[NOSE_TIP_IDX + 1]
                    t == <<InFrame[j][1] - center[1], InFrame[j][2] - center[2],
                           InFrame[j][3] - center[3]>>
                    sd == InScaleDistance
                IN /\ Norm(OutFrame[j]) <= 5 * Unit + ClampTolerance
                   /\ Norm(t) > 5 * sd => Norm(OutFrame[j]) >= 5 * Unit - ClampTolerance
                   /\ Norm(t) <= 5 * sd =>
                          OutFrame[j] = [k \in 1..3 |-> (t[k] * Unit) \div sd]

\* C23 as first stated: when a reference landmark is missing, either
\* normalizer returns its input unchanged (applyDistanceNormalization the
\* frame, normalizeLandmarks an array for an input of the wrong length).
C23_MissingReferencesNoOp ==
    /\ (Applied("distance") /\ ~ReferencesPresent) => OutFrame = InFrame
    /\ (Applied("normalize") /\ pureIn.count # NUM_LANDMARKS) =>
           pureOut.normalized.ret = "array"

\* C23: when the frame is too short for a reference index or a reference
\* landmark is sentinel-filled, applyDistanceNormalization returns the frame
\* unchanged; normalizeLandmarks returns null for an input that has not
\* exactly NUM_LANDMARKS landmarks.
C23_MissingReferencesNoOpOrNull ==
    /\ (Applied("distance") /\ ~ReferencesPresent) => OutFrame = InFrame
    /\ (Applied("normalize") /\ pureIn.count # NUM_LANDMARKS) =>
           pureOut.normalized.ret = "null"

\* A frame with real points whose left eye corner is sentinel-filled came
\* back as it was.
C23_Witness ==
    /\ Applied("distance")
    /\ pureIn.count > RIGHT_EYE_OUTER_IDX
    /\ pureIn.missing = {"leftEye"}
    /\ ~SentinelFilled(InFrame[1])
    /\ OutFrame = InFrame

(***************************************************************************)
(* Properties of the label lookup (specification PureSpec)                 *)
(***************************************************************************)
\* C26: when the predicted class index has no label the result's name is
\* "Unknown Index", and no label is read at an index outside the label table
\* when the displayed probability list is built.
C26_LabelMismatchTagged ==
    Applied("softmax") =>
        /\ (pureOut.details.index # -1
              /\ ~HasLabel(pureIn.numLabels, pureOut.details.index))
               => pureOut.details.name = "Unknown Index"
        /\ \A i \in 1..Len(pureOut.mapped) :
               pureOut.mapped[i].labelRead < pureIn.numLabels

====
